---- MODULE Spec2Model ----
(***************************************************************************)
(* Model of the record-dump parsing and classification code of the         *)
(* ofml-interpreter analysis scripts:                                      *)
(*   analyze_framery_pricing.py   parse_price_records, analyze_manufacturer*)
(*   analyze_framery.py           extract_*, the sharing verdict of main   *)
(*   compare_framery_fast.py      extract_price_data                       *)
(*   comprehensive_pricing_investigation.py   the JSON entry path          *)
(* Text is modelled by TLA+ strings, a dump by the sequence of its lines   *)
(* (the result of output.split('\n'), which is never empty), a dict by a   *)
(* function whose domain is its key set.                                   *)
(***************************************************************************)
EXTENDS Integers, Sequences, FiniteSets, TLC

VARIABLES
  pc,              \* position of the running script
  output,          \* the dump text handed to the parser, as its lines
  i,               \* index of the next line of the for loop
  in_records,      \* parse_price_records: in_records
  current_record,  \* parse_price_records: current_record
  prices,          \* parse_price_records: prices
  base_prices,     \* analyze_manufacturer: base_prices
  surcharges,      \* analyze_manufacturer: surcharges
  corrupt,         \* analyze_manufacturer: corrupt
  results,         \* main: results
  findings,        \* main: the KEY FINDINGS lines printed, one per result
  records,         \* result list of the regular-expression extractors
  all_series_data, \* analyze_framery.main: all_series_data, in series order
  verdict,         \* analyze_framery.main: the sharing message printed
  price_data,      \* comprehensive analyze_manufacturer: price_data
  propclass_data,  \* comprehensive analyze_manufacturer: propclass_data
  mfr_results,     \* comprehensive analyze_manufacturer: results
  printed,         \* comprehensive analyze_manufacturer: the counts printed
  all_results,     \* comprehensive main: all_results
  errors           \* comprehensive main: the ERROR lines printed

vars == <<pc, output, i, in_records, current_record, prices,
          base_prices, surcharges, corrupt, results, findings, records,
          all_series_data, verdict, price_data, propclass_data, mfr_results,
          printed, all_results, errors>>

(***************************************************************************)
(* Bounds of the model.                                                    *)
(***************************************************************************)
MaxLines == 3
MaxRecords == 3

(***************************************************************************)
(* Python str operations.                                                  *)
(***************************************************************************)
\* s.startswith(p)
StartsWith(s, p) == Len(s) >= Len(p) /\ SubSeq(s, 1, Len(p)) = p

\* the positions at which p occurs in s
Occurrences(s, p) ==
  {k \in 1..(Len(s) - Len(p) + 1) : SubSeq(s, k, k + Len(p) - 1) = p}

\* p in s
Contains(s, p) == Occurrences(s, p) # {}

\* s.find(p), 1-based; 0 when p does not occur
Find(s, p) ==
  IF Occurrences(s, p) = {} THEN 0
  ELSE CHOOSE k \in Occurrences(s, p) : \A m \in Occurrences(s, p) : k <= m

\* the characters str.strip() removes
Whitespace == " \t\r\f"

RECURSIVE LStripBy(_, _)
LStripBy(s, chars) ==
  IF Len(s) > 0 /\ Contains(chars, SubSeq(s, 1, 1))
  THEN LStripBy(SubSeq(s, 2, Len(s)), chars) ELSE s

RECURSIVE RStripBy(_, _)
RStripBy(s, chars) ==
  IF Len(s) > 0 /\ Contains(chars, SubSeq(s, Len(s), Len(s)))
  THEN RStripBy(SubSeq(s, 1, Len(s) - 1), chars) ELSE s

\* s.strip(chars): every leading and trailing character of chars is removed
StripChars(s, chars) == RStripBy(LStripBy(s, chars), chars)

\* s.strip()
Strip(s) == StripChars(s, Whitespace)

\* s.split(':', 1)[0] and [1], for a line that holds a colon
BeforeColon(s) == SubSeq(s, 1, Find(s, ":") - 1)
AfterColon(s) == SubSeq(s, Find(s, ":") + 1, Len(s))

(***************************************************************************)
(* Python dict operations.                                                 *)
(***************************************************************************)
EmptyDict == <<>>

\* the mutant of SetItem: the first value written is kept
SetItemKeepFirst(d, k, v) ==
  [x \in (DOMAIN d) \cup {k} |-> IF x \in DOMAIN d THEN d[x] ELSE v]

\* d[k] = v
SetItem(d, k, v) ==
  [x \in (DOMAIN d) \cup {k} |-> IF x = k THEN v ELSE d[x]]

\* bool(d)
Truthy(d) == DOMAIN d # {}

\* d.get(k) == v (a missing key gives None, which equals no string)
GetIs(d, k, v) == k \in DOMAIN d /\ d[k] = v

(***************************************************************************)
(* The dumps fed to the parsers: every text of 1..MaxLines lines of a      *)
(* pool, the well-formed ocd_price dumps of up to MaxRecords records, and  *)
(* the scenario texts.                                                     *)
(***************************************************************************)
BannerLine == "=== Records from ocd_price ==="

\* lines of an ocd_price dump
PricePool ==
  { BannerLine,
    "Record 1",
    "article_nr: 'X1'",
    "article_nr: ''",
    "price_level: 'B'",
    "price_level: 'X'",
    "Table: ocd_price",
    "" }

\* lines of an ocd_article or ocd_propertyclass dump
ArticlePool ==
  { "Record 1",
    "article_nr: 'X1'",
    "article_nr: ''",
    "prop_class: 'MG_GLOBAL'",
    "series: 'frmr_one'",
    "" }

ScenarioText ==
  << "Record 1", "article_nr: 'X1'", "price_level: 'B'", "price: '100'",
     "currency: 'EUR'",
     "Record 2", "article_nr: 'X2'", "price_level: 'X'", "price: '10'",
     "currency: 'EUR'" >>

BannerScenarioText == <<BannerLine>> \o ScenarioText

\* the price_level lines a record of a well-formed dump may hold: none, one,
\* or the field written twice
LevelLines ==
  { <<>>,
    <<"price_level: 'B'">>,
    <<"price_level: 'X'">>,
    <<"price_level: 'Q'">>,
    <<"price_level: 'B'", "price_level: 'X'">> }

RECURSIVE DumpOf(_)
DumpOf(levels) ==
  IF levels = <<>> THEN <<>>
  ELSE <<"Record 1", "article_nr: 'X1'">> \o Head(levels) \o DumpOf(Tail(levels))

\* the well-formed dumps of up to MaxRecords records
RecordDumps ==
  {<<BannerLine>> \o DumpOf(levels) :
     levels \in UNION {[1..n -> LevelLines] : n \in 1..MaxRecords}}

FreeTexts(pool) == UNION {[1..n -> pool] : n \in 1..MaxLines}

\* field lines whose value holds a quote of its own, or no quotes at all
QuoteLines ==
  { "article_nr: ''X1'",
    "article_nr: 'X1''",
    "article_nr: 'X'1'",
    "price: 100" }

\* one-record dumps with such a field line
QuoteDumps == {<<BannerLine, "Record 1", line>> : line \in QuoteLines}

\* a banner that carries a colon, and the lines of a dump that are neither a
\* boundary nor a field
BannerColonLine == "=== Records from ocd_price: 1 ==="

HeaderLines ==
  { BannerColonLine,
    "Table: ocd_price",
    "-----",
    "" }

\* a one-record dump with such a line before the banner, inside the record
\* and after it
HeaderDumps ==
  {<<h, BannerLine, "Record 1", "article_nr: 'X1'", h, "price_level: 'B'", h>> :
     h \in HeaderLines}

PriceTexts ==
  FreeTexts(PricePool) \cup RecordDumps \cup QuoteDumps \cup HeaderDumps
    \cup {ScenarioText, BannerScenarioText}

ArticleTexts == FreeTexts(ArticlePool)

(***************************************************************************)
(* analyze_framery_pricing.py: parse_price_records                         *)
(***************************************************************************)
\* '=== Records from ocd_price' in line
IsBanner(line) == Contains(line, "=== Records from ocd_price")

\* line.startswith('Record ')
IsRecordStart(line) == StartsWith(line, "Record ")

\* the mutant of IsFieldLine: every line with a colon is a field
IsFieldLineAnyColon(line) == Contains(line, ":")

\* ':' in line and not line.strip().startswith('Table:')
IsFieldLine(line) ==
  Contains(line, ":") /\ ~StartsWith(Strip(line), "Table:")

\* key = parts[0].strip()
FieldKey(line) == Strip(BeforeColon(line))

\* the mutant of FieldValue: the quotes are left on the value
FieldValueQuoted(line) == Strip(AfterColon(line))

\* value = parts[1].strip().strip("'")
FieldValue(line) == StripChars(Strip(AfterColon(line)), "'")

\* the mutant of Emit: the accumulator is appended even when empty
EmitAlways(list, rec) == Append(list, rec)

\* if current_record: prices.append(current_record)
Emit(list, rec) == IF Truthy(rec) THEN Append(list, rec) ELSE list

\* the mutant of ParseLine: lines are handled whether or not the banner has
\* been seen
ParseLineNoGate(st, line) ==
  IF IsBanner(line) THEN [st EXCEPT !.in_records = TRUE]
  ELSE IF IsRecordStart(line)
    THEN [st EXCEPT !.prices = Emit(st.prices, st.current_record),
                    !.current_record = EmptyDict]
  ELSE IF IsFieldLine(line)
    THEN [st EXCEPT !.current_record =
            SetItem(st.current_record, FieldKey(line), FieldValue(line))]
  ELSE st

\* one pass of the body of the for loop over the state
\* st = [in_records, current_record, prices]
ParseLine(st, line) ==
  IF IsBanner(line) THEN [st EXCEPT !.in_records = TRUE]
  ELSE IF ~st.in_records THEN st
  ELSE IF IsRecordStart(line)
    THEN [st EXCEPT !.prices = Emit(st.prices, st.current_record),
                    !.current_record = EmptyDict]
  ELSE IF IsFieldLine(line)
    THEN [st EXCEPT !.current_record =
            SetItem(st.current_record, FieldKey(line), FieldValue(line))]
  ELSE st

ParseInit ==
  [in_records |-> FALSE, current_record |-> EmptyDict, prices |-> <<>>]

RECURSIVE ParseFrom(_, _, _)
ParseFrom(st, lines, k) ==
  IF k > Len(lines) THEN st ELSE ParseFrom(ParseLine(st, lines[k]), lines, k + 1)

\* parse_price_records(output)
parse_price_records(lines) ==
  LET st == ParseFrom(ParseInit, lines, 1)
  IN Emit(st.prices, st.current_record)

(***************************************************************************)
(* analyze_framery_pricing.py: analyze_manufacturer, the classifier        *)
(***************************************************************************)
IsBase(p) == GetIs(p, "price_level", "B")

IsSurcharge(p) == GetIs(p, "price_level", "X")

\* the mutant of IsCorrupt: only 'B' is excluded
IsCorruptNotB(p) == ~GetIs(p, "price_level", "B")

\* p.get('price_level') not in ['B', 'X']
IsCorrupt(p) == ~(GetIs(p, "price_level", "B") \/ GetIs(p, "price_level", "X"))

\* the mutant of NoBasePrices: the warning is tied to an empty dump
NoBasePricesWhenEmpty(r) == r.total = 0

\* main: if r['base'] == 0
NoBasePrices(r) == r.base = 0

(***************************************************************************)
(* Python re.search(rf"{field}: '([^']+)'", line) and its [^']* variant:   *)
(* the leftmost place where the literal prefix is followed by a run of     *)
(* at least minLen characters other than a quote and then by a quote.      *)
(***************************************************************************)
QuotedRun(line, field, k) ==
  LET rest == SubSeq(line, k + Len(field) + 3, Len(line))
  IN [closed |-> Find(rest, "'") > 0,
      group  |-> SubSeq(rest, 1, Find(rest, "'") - 1)]

QuotedMatches(line, field, minLen) ==
  {k \in Occurrences(line, field \o ": '") :
     QuotedRun(line, field, k).closed
       /\ Len(QuotedRun(line, field, k).group) >= minLen}

\* match is not None
QuotedFound(line, field, minLen) == QuotedMatches(line, field, minLen) # {}

\* match.group(1)
QuotedGroup(line, field, minLen) ==
  LET ms == QuotedMatches(line, field, minLen)
      k  == CHOOSE a \in ms : \A b \in ms : a <= b
  IN QuotedRun(line, field, k).group

(***************************************************************************)
(* analyze_framery.py: extract_articles, extract_propertyclass_mappings    *)
(***************************************************************************)
\* line.startswith("Record")
IsRecordLine(line) == StartsWith(line, "Record")

\* match = re.search(rf"{field}: '([^']+)'", line); if match: cur[field] = ...
PlusField(cur, line, field) ==
  IF QuotedFound(line, field, 1)
  THEN SetItem(cur, field, QuotedGroup(line, field, 1)) ELSE cur

\* the elif chain of the loop body, on st = [cur, out]
ElifLine(st, line, f1, f2) ==
  IF IsRecordLine(line)
    THEN [cur |-> EmptyDict, out |-> Emit(st.out, st.cur)]
  ELSE IF Contains(line, f1 \o ":")
    THEN [st EXCEPT !.cur = PlusField(st.cur, line, f1)]
  ELSE IF Contains(line, f2 \o ":")
    THEN [st EXCEPT !.cur = PlusField(st.cur, line, f2)]
  ELSE st

RECURSIVE ElifFrom(_, _, _, _, _)
ElifFrom(st, lines, k, f1, f2) ==
  IF k > Len(lines) THEN st
  ELSE ElifFrom(ElifLine(st, lines[k], f1, f2), lines, k + 1, f1, f2)

ElifExtract(lines, f1, f2) ==
  LET st == ElifFrom([cur |-> EmptyDict, out |-> <<>>], lines, 1, f1, f2)
  IN Emit(st.out, st.cur)

extract_articles(lines) == ElifExtract(lines, "article_nr", "series")

extract_propertyclass_mappings(lines) ==
  ElifExtract(lines, "article_nr", "prop_class")

(***************************************************************************)
(* compare_framery_fast.py: extract_price_data                             *)
(***************************************************************************)
PriceFields == <<"article_nr", "var_cond", "price_level">>

\* if f"{field}:" in line: match = re.search(rf"{field}: '([^']*)'", line) ...
StarField(cur, line, field) ==
  IF Contains(line, field \o ":") /\ QuotedFound(line, field, 0)
  THEN SetItem(cur, field, QuotedGroup(line, field, 0)) ELSE cur

\* for field in ['article_nr', 'var_cond', 'price_level']: ...
RECURSIVE StarFields(_, _, _, _)
StarFields(cur, line, fields, k) ==
  IF k > Len(fields) THEN cur
  ELSE StarFields(StarField(cur, line, fields[k]), line, fields, k + 1)

StarLine(st, line, fields) ==
  IF IsRecordLine(line)
    THEN [cur |-> EmptyDict, out |-> Emit(st.out, st.cur)]
  ELSE [st EXCEPT !.cur = StarFields(st.cur, line, fields, 1)]

RECURSIVE StarFrom(_, _, _, _)
StarFrom(st, lines, k, fields) ==
  IF k > Len(lines) THEN st
  ELSE StarFrom(StarLine(st, lines[k], fields), lines, k + 1, fields)

extract_price_data(lines) ==
  LET st == StarFrom([cur |-> EmptyDict, out |-> <<>>], lines, 1, PriceFields)
  IN Emit(st.out, st.cur)

(***************************************************************************)
(* analyze_framery.py: extract_property_classes and the sharing verdict    *)
(* of main.  sorted(classes) is a list without duplicates that main only   *)
(* turns back into a set: it is modelled by the set.                       *)
(***************************************************************************)
MaxSeries == 3

\* the ocd_property dumps of the series
PropOutputs ==
  { <<"prop_class: 'MG_GLOBAL'", "prop_class: 'MG_PROPERTIES'">>,
    <<"Record 1", "prop_class: 'MG_PROPERTIES'", "Record 2",
      "prop_class: 'MG_GLOBAL'", "prop_class: 'MG_GLOBAL'">>,
    <<"prop_class: 'KR_A'", "prop_class: 'KR_B'">>,
    <<"prop_class: 'WKM_A'", "prop_class: 'WKM_B'">>,
    <<"prop_class: 'MG_GLOBAL'", "prop_class: ''">>,
    <<"">> }

\* if "prop_class:" in line: match = re.search(...); if match: classes.add(...)
extract_property_classes(lines) ==
  {QuotedGroup(lines[k], "prop_class", 1) :
     k \in {m \in 1..Len(lines) :
              Contains(lines[m], "prop_class:")
                /\ QuotedFound(lines[m], "prop_class", 1)}}

\* the mutant of AllSame: any() instead of all()
AllSameAny(data) ==
  \E k \in 1..Len(data) : data[k].property_classes = data[1].property_classes

\* the mutant of SameClasses: containment instead of equality
SameClassesSubset(classes, first_series_classes) ==
  classes \subseteq first_series_classes

\* set(data['property_classes']) == first_series_classes
SameClasses(classes, first_series_classes) == classes = first_series_classes

\* all_same = all(set(data['property_classes']) == first_series_classes ...)
AllSame(data) ==
  \A k \in 1..Len(data) :
    SameClasses(data[k].property_classes, data[1].property_classes)

\* the message main prints for all_series_data
Verdict(data) ==
  IF Len(data) > 0
  THEN IF AllSame(data) THEN "shared" ELSE "series-specific"
  ELSE "none"

(***************************************************************************)
(* comprehensive_pricing_investigation.py: the JSON entry path.  A decoded *)
(* JSON value carries its Python type in t; None is what run_ofml_command  *)
(* returns for a failed command, and what json.loads gives for null.       *)
(***************************************************************************)
MaxElems == 2

SampleLimit == 10
P2VSampleLimit == 10
PropClassSampleLimit == 5
PropValueSampleLimit == 10
ArticleSampleLimit == 5

\* a decoded value: its type t and, per type, its payload
JValue(type, n, text, a, d) ==
  [t |-> type, num |-> n, str |-> text, items |-> a, dict |-> d]

None == JValue("null", 0, "", <<>>, <<>>)
JNum(n) == JValue("num", n, "", <<>>, <<>>)
JStr(text) == JValue("str", 0, text, <<>>, <<>>)
JArr(a) == JValue("arr", 0, "", a, <<>>)
JObj(d) == JValue("obj", 0, "", <<>>, d)

\* bool(x)
PyTruthy(x) ==
  CASE x.t = "null" -> FALSE
    [] x.t = "num" -> x.num # 0
    [] x.t = "str" -> Len(x.str) > 0
    [] x.t = "arr" -> Len(x.items) > 0
    [] x.t = "obj" -> DOMAIN x.dict # {}

\* iter(x) raises TypeError for a number
CanIterate(x) == x.t \in {"arr", "str", "obj"}

\* the items a for loop over x visits (a dict gives its keys, a str its
\* characters)
IterItems(x) ==
  CASE x.t = "arr" -> x.items
    [] x.t = "str" -> [k \in 1..Len(x.str) |-> JStr(SubSeq(x.str, k, k))]
    [] x.t = "obj" ->
         LET n == Cardinality(DOMAIN x.dict)
             order == CHOOSE f \in [1..n -> DOMAIN x.dict] :
                        \A a, b \in 1..n : a # b => f[a] # f[b]
         IN [k \in 1..n |-> JStr(order[k])]

\* len(x) raises TypeError for a number
CanLen(x) == x.t \in {"arr", "str", "obj"}

\* x[:n] raises for a dict and for a number
CanSlice(x) == x.t \in {"arr", "str"}

\* the items of a for loop over x[:n]
SliceItems(x, n) ==
  LET items == IterItems(x)
  IN SubSeq(items, 1, IF Len(items) < n THEN Len(items) ELSE n)

\* record.get exists for a dict only (AttributeError otherwise)
HasGet(x) == x.t = "obj"

\* record.get(key, default)
Get(record, key, default) ==
  IF key \in DOMAIN record.dict THEN record.dict[key] ELSE default

\* the sample dict appended to results['base_prices'] / ['surcharges']
PriceSample(record) ==
  [article_nr |-> Get(record, "article_nr", JStr("")),
   var_cond |-> Get(record, "var_cond", JStr("")),
   price |-> Get(record, "price", JNum(0))]

\* the branch the price loop takes for record
LevelBucket(record) ==
  IF Get(record, "level", JStr("")) = JStr("B") THEN "Base"
  ELSE IF Get(record, "level", JStr("")) = JStr("X") THEN "Surcharge"
  ELSE "Other"

\* one pass of the body of for record in price_data, on
\* acc = [raised, base_count, surcharge_count, base_prices, surcharges]
PriceRecord(acc, record) ==
  IF acc.raised THEN acc
  ELSE IF ~HasGet(record) THEN [acc EXCEPT !.raised = TRUE]
  ELSE IF LevelBucket(record) = "Base"
    THEN [acc EXCEPT !.base_count = @ + 1,
                     !.base_prices =
                        IF acc.base_count + 1 <= SampleLimit
                        THEN Append(@, PriceSample(record)) ELSE @]
  ELSE IF LevelBucket(record) = "Surcharge"
    THEN [acc EXCEPT !.surcharge_count = @ + 1,
                     !.surcharges =
                        IF acc.surcharge_count + 1 <= SampleLimit
                        THEN Append(@, PriceSample(record)) ELSE @]
  ELSE acc

RECURSIVE PriceFrom(_, _, _)
PriceFrom(acc, items, k) ==
  IF k > Len(items) THEN acc
  ELSE PriceFrom(PriceRecord(acc, items[k]), items, k + 1)

\* for record in price_data: ...
PriceLoop(data) ==
  IF ~CanIterate(data)
  THEN [raised |-> TRUE, base_count |-> 0, surcharge_count |-> 0,
        base_prices |-> <<>>, surcharges |-> <<>>]
  ELSE PriceFrom([raised |-> FALSE, base_count |-> 0, surcharge_count |-> 0,
                  base_prices |-> <<>>, surcharges |-> <<>>],
                 IterItems(data), 1)

\* a loop or comprehension over x that calls r.get on every item raises
GetLoopRaises(x) ==
  ~CanIterate(x) \/ \E k \in 1..Len(IterItems(x)) : ~HasGet(IterItems(x)[k])

\* a loop over x[:n] that calls rec.get on every item raises
GetSliceRaises(x, n) ==
  ~CanSlice(x) \/ \E k \in 1..Len(SliceItems(x, n)) : ~HasGet(SliceItems(x, n)[k])

\* the mutant of IsWildcard: a missing article_nr counts as the wildcard
IsWildcardOrMissing(r) == Get(r, "article_nr", JStr("*")) = JStr("*")

\* r.get('article_nr') == '*'
IsWildcard(r) == Get(r, "article_nr", None) = JStr("*")

\* wildcard = sum(1 for r in propclass_data if r.get('article_nr') == '*')
CountWildcard(items) == Cardinality({k \in 1..Len(items) : IsWildcard(items[k])})

\* r.get('article_nr') != '*'
IsArticleSpecific(r) == Get(r, "article_nr", None) # JStr("*")

\* article_specific = sum(1 for r in propclass_data if r.get('article_nr') != '*')
CountArticleSpecific(items) ==
    Cardinality({k \in 1..Len(items) : IsArticleSpecific(items[k])})

\* the decoded dumps given to the JSON path
RowLevelB ==
  JObj([k \in {"article_nr", "level", "price"} |->
          CASE k = "article_nr" -> JStr("X1")
            [] k = "level" -> JStr("B")
            [] k = "price" -> JNum(100)])

RowLevelX ==
  JObj([k \in {"article_nr", "level", "var_cond", "price"} |->
          CASE k = "article_nr" -> JStr("X1")
            [] k = "level" -> JStr("X")
            [] k = "var_cond" -> JStr("S1")
            [] k = "price" -> JNum(10)])

RowPriceLevelB ==
  JObj([k \in {"article_nr", "price_level"} |->
          IF k = "article_nr" THEN JStr("X1") ELSE JStr("B")])

MapStar ==
  JObj([k \in {"article_nr", "property_class"} |->
          IF k = "article_nr" THEN JStr("*") ELSE JStr("MG_GLOBAL")])

MapX1 ==
  JObj([k \in {"article_nr", "property_class"} |->
          IF k = "article_nr" THEN JStr("X1") ELSE JStr("MG_GLOBAL")])

MapNoArticle == JObj([k \in {"property_class"} |-> JStr("MG_GLOBAL")])

Arrays(elems) == {JArr(a) : a \in UNION {[1..n -> elems] : n \in 0..MaxElems}}

PriceDumps ==
  Arrays({RowLevelB, RowLevelX, RowPriceLevelB, JNum(5)})
    \cup {None, JNum(5), JObj(<<>>), RowLevelB}

\* a mapping list longer than the sample kept of it, with repeated rows
LongMappings ==
  JArr(<<MapStar, MapStar, MapX1, MapNoArticle, MapX1, MapStar>>)

PropClassDumps ==
  Arrays({MapStar, MapX1, MapNoArticle, JNum(5)}) \cup {None, LongMappings}

P2VDumps == {None, JArr(<<MapX1>>), JArr(<<JNum(5)>>), JObj(<<>>)}

PropValueDumps == {None, JArr(<<MapNoArticle>>), JArr(<<JNum(5)>>)}

ArticleDumps == {None, JArr(<<MapX1>>), JStr("ab")}

(***************************************************************************)
(* The two entry paths for one logical row.  The text dump of a row is the *)
(* banner, a boundary line and one name: 'value' line per field, the       *)
(* format the external query tool prints.                                  *)
(***************************************************************************)
\* the bucket analyze_framery_pricing.analyze_manufacturer puts p in
PriceBucket(p) ==
  IF IsBase(p) THEN "Base" ELSE IF IsSurcharge(p) THEN "Surcharge" ELSE "Other"

\* the text dump of a row whose values are all strings
RowText(row) ==
  LET n == Cardinality(DOMAIN row.dict)
      order == CHOOSE f \in [1..n -> DOMAIN row.dict] :
                 \A a, b \in 1..n : a # b => f[a] # f[b]
  IN <<BannerLine, "Record 1">>
       \o [k \in 1..n |-> order[k] \o ": '" \o row.dict[order[k]].str \o "'"]

(***************************************************************************)
(* The state machine.  One of the scripts runs from pc = "start".          *)
(***************************************************************************)
\* comprehensive analyze_manufacturer: results = {...}
NewResults ==
  [base_prices |-> <<>>, surcharges |-> <<>>,
   has_propvalue2varcond |-> FALSE, propvalue2varcond_samples |-> <<>>,
   property_classes |-> <<>>, property_values |-> <<>>, articles |-> <<>>]

Init ==
  /\ pc = "start"
  /\ output = <<>>
  /\ i = 1
  /\ in_records = FALSE
  /\ current_record = EmptyDict
  /\ prices = <<>>
  /\ base_prices = <<>>
  /\ surcharges = <<>>
  /\ corrupt = <<>>
  /\ results = <<>>
  /\ findings = <<>>
  /\ records = <<>>
  /\ all_series_data = <<>>
  /\ verdict = ""
  /\ price_data = None
  /\ propclass_data = None
  /\ mfr_results = NewResults
  /\ printed = <<>>
  /\ all_results = <<>>
  /\ errors = <<>>

textVars == <<output, i, in_records, current_record, prices>>
classVars == <<base_prices, surcharges, corrupt, results, findings>>
seriesVars == <<all_series_data, verdict>>
jsonVars == <<price_data, propclass_data, mfr_results, printed, all_results,
              errors>>

\* analyze_manufacturer: output = run_ebase_dump(path, 'ocd_price'), and the
\* first three lines of parse_price_records
RunEbaseDump ==
  /\ pc = "start"
  /\ \E text \in PriceTexts : output' = text
  /\ pc' = "parse"
  /\ i' = 1
  /\ in_records' = FALSE
  /\ current_record' = EmptyDict
  /\ prices' = <<>>
  /\ UNCHANGED <<classVars, records, seriesVars, jsonVars>>

\* the loop body applied to line i
Advance ==
  LET st == ParseLine([in_records |-> in_records,
                       current_record |-> current_record,
                       prices |-> prices], output[i])
  IN /\ in_records' = st.in_records
     /\ current_record' = st.current_record
     /\ prices' = st.prices
     /\ i' = i + 1
     /\ UNCHANGED <<pc, output, classVars, records, seriesVars, jsonVars>>

AtLine == pc = "parse" /\ i <= Len(output)

\* if '=== Records from ocd_price' in line: in_records = True; continue
SeeBanner == AtLine /\ IsBanner(output[i]) /\ Advance

\* if not in_records: continue
SkipOutside == AtLine /\ ~IsBanner(output[i]) /\ ~in_records /\ Advance

\* if line.startswith('Record '): ...
StartRecord ==
  AtLine /\ ~IsBanner(output[i]) /\ in_records /\ IsRecordStart(output[i])
    /\ Advance

\* elif ':' in line and not line.strip().startswith('Table:'): ...
StoreField ==
  AtLine /\ ~IsBanner(output[i]) /\ in_records /\ ~IsRecordStart(output[i])
    /\ IsFieldLine(output[i]) /\ Advance

\* any other line inside the records section
IgnoreLine ==
  AtLine /\ ~IsBanner(output[i]) /\ in_records /\ ~IsRecordStart(output[i])
    /\ ~IsFieldLine(output[i]) /\ Advance

\* after the loop: if current_record: prices.append(current_record); return
FinishParse ==
  /\ pc = "parse" /\ i > Len(output)
  /\ prices' = Emit(prices, current_record)
  /\ pc' = "parsed"
  /\ UNCHANGED <<output, i, in_records, current_record, classVars, records,
                 seriesVars, jsonVars>>

\* analyze_manufacturer: the three comprehensions and the returned dict
Classify ==
  /\ pc = "parsed"
  /\ base_prices' = SelectSeq(prices, IsBase)
  /\ surcharges' = SelectSeq(prices, IsSurcharge)
  /\ corrupt' = SelectSeq(prices, IsCorrupt)
  /\ results' = Append(results,
       [total |-> Len(prices),
        base |-> Len(SelectSeq(prices, IsBase)),
        surcharges |-> Len(SelectSeq(prices, IsSurcharge)),
        corrupt |-> Len(SelectSeq(prices, IsCorrupt)),
        base_prices |-> SelectSeq(prices, IsBase)])
  /\ pc' = "classified"
  /\ UNCHANGED <<textVars, findings, records, seriesVars, jsonVars>>

\* main: KEY FINDINGS, for r in results
Report ==
  /\ pc = "classified"
  /\ findings' = [k \in 1..Len(results) |->
                    IF NoBasePrices(results[k]) THEN "WARNING" ELSE "OK"]
  /\ pc' = "reported"
  /\ UNCHANGED <<textVars, base_prices, surcharges, corrupt, results, records,
                 seriesVars, jsonVars>>

\* analyze_framery.main: articles = extract_articles(article_output)
ExtractArticles ==
  /\ pc = "start"
  /\ \E text \in ArticleTexts :
       output' = text /\ records' = extract_articles(text)
  /\ pc' = "articles"
  /\ UNCHANGED <<i, in_records, current_record, prices, classVars, seriesVars,
                 jsonVars>>

\* analyze_framery.main: mappings = extract_propertyclass_mappings(...)
ExtractMappings ==
  /\ pc = "start"
  /\ \E text \in ArticleTexts :
       output' = text /\ records' = extract_propertyclass_mappings(text)
  /\ pc' = "mappings"
  /\ UNCHANGED <<i, in_records, current_record, prices, classVars, seriesVars,
                 jsonVars>>

\* compare_framery_fast: prices = extract_price_data(price_output)
ExtractPriceData ==
  /\ pc = "start"
  /\ \E text \in PriceTexts :
       output' = text /\ records' = extract_price_data(text)
  /\ pc' = "fast_prices"
  /\ UNCHANGED <<i, in_records, current_record, prices, classVars, seriesVars,
                 jsonVars>>

\* analyze_framery.main: one pass of for pdata_file in pdata_files; of the
\* entry stored for the series only 'property_classes' is read again
AnalyzeSeries ==
  /\ pc \in {"start", "series"}
  /\ Len(all_series_data) < MaxSeries
  /\ \E prop_output \in PropOutputs :
       all_series_data' = Append(all_series_data,
         [property_classes |-> extract_property_classes(prop_output)])
  /\ pc' = "series"
  /\ UNCHANGED <<textVars, classVars, records, verdict, jsonVars>>

\* analyze_framery.main: the summary after the loop
Summarize ==
  /\ pc \in {"start", "series"}
  /\ verdict' = Verdict(all_series_data)
  /\ pc' = "summary"
  /\ UNCHANGED <<textVars, classVars, records, all_series_data, jsonVars>>

\* comprehensive analyze_manufacturer, 1: the ocd_price table
CheckPrice ==
  /\ pc = "start"
  /\ \E data \in PriceDumps :
       /\ price_data' = data
       /\ IF ~PyTruthy(data)
          THEN pc' = "j_p2v" /\ UNCHANGED <<mfr_results, printed>>
          ELSE IF PriceLoop(data).raised
          THEN pc' = "j_raised" /\ UNCHANGED <<mfr_results, printed>>
          ELSE /\ pc' = "j_p2v"
               /\ mfr_results' =
                    [mfr_results EXCEPT
                       !.base_prices = PriceLoop(data).base_prices,
                       !.surcharges = PriceLoop(data).surcharges]
               /\ printed' = Append(printed,
                    [table |-> "ocd_price",
                     base |-> PriceLoop(data).base_count,
                     surcharges |-> PriceLoop(data).surcharge_count])
  /\ UNCHANGED <<textVars, classVars, records, seriesVars, propclass_data,
                 all_results, errors>>

\* comprehensive analyze_manufacturer, 2: the ocd_propvalue2varcond table
CheckP2V ==
  /\ pc = "j_p2v"
  /\ \E data \in P2VDumps :
       IF ~PyTruthy(data)
       THEN pc' = "j_propclass" /\ UNCHANGED <<mfr_results, printed>>
       ELSE IF ~CanLen(data) \/ ~CanSlice(data)
       THEN pc' = "j_raised" /\ UNCHANGED <<mfr_results, printed>>
       ELSE /\ pc' = "j_propclass"
            /\ mfr_results' =
                 [mfr_results EXCEPT
                    !.has_propvalue2varcond = TRUE,
                    !.propvalue2varcond_samples =
                       SliceItems(data, P2VSampleLimit)]
            /\ printed' = Append(printed,
                 [table |-> "ocd_propvalue2varcond",
                  total |-> Len(IterItems(data))])
  /\ UNCHANGED <<textVars, classVars, records, seriesVars, price_data,
                 propclass_data, all_results, errors>>

\* comprehensive analyze_manufacturer, 3: the ocd_propertyclass table
CheckPropClass ==
  /\ pc = "j_propclass"
  /\ \E data \in PropClassDumps :
       /\ propclass_data' = data
       /\ IF ~PyTruthy(data)
          THEN pc' = "j_propvalue" /\ UNCHANGED <<mfr_results, printed>>
          ELSE IF GetLoopRaises(data)
          THEN pc' = "j_raised" /\ UNCHANGED <<mfr_results, printed>>
          ELSE /\ pc' = "j_propvalue"
               /\ mfr_results' =
                    [mfr_results EXCEPT !.property_classes =
                       SliceItems(data, PropClassSampleLimit)]
               /\ printed' = Append(printed,
                    [table |-> "ocd_propertyclass",
                     total |-> Len(IterItems(data)),
                     article_specific |->
                        CountArticleSpecific(IterItems(data)),
                     wildcard |-> CountWildcard(IterItems(data))])
  /\ UNCHANGED <<textVars, classVars, records, seriesVars, price_data,
                 all_results, errors>>

\* comprehensive analyze_manufacturer, 4: the ocd_propertyvalue table
CheckPropValue ==
  /\ pc = "j_propvalue"
  /\ \E data \in PropValueDumps :
       IF ~PyTruthy(data)
       THEN pc' = "j_article" /\ UNCHANGED <<mfr_results, printed>>
       ELSE IF ~CanLen(data) \/ GetLoopRaises(data)
       THEN pc' = "j_raised" /\ UNCHANGED <<mfr_results, printed>>
       ELSE /\ pc' = "j_article"
            /\ mfr_results' =
                 [mfr_results EXCEPT !.property_values =
                    SliceItems(data, PropValueSampleLimit)]
            /\ printed' = Append(printed,
                 [table |-> "ocd_propertyvalue",
                  total |-> Len(IterItems(data))])
  /\ UNCHANGED <<textVars, classVars, records, seriesVars, price_data,
                 propclass_data, all_results, errors>>

\* comprehensive analyze_manufacturer, 5: the ocd_article table, and return
CheckArticle ==
  /\ pc = "j_article"
  /\ \E data \in ArticleDumps :
       IF ~PyTruthy(data)
       THEN pc' = "j_return" /\ UNCHANGED <<mfr_results, printed>>
       ELSE IF ~CanLen(data) \/ GetSliceRaises(data, ArticleSampleLimit)
       THEN pc' = "j_raised" /\ UNCHANGED <<mfr_results, printed>>
       ELSE /\ pc' = "j_return"
            /\ mfr_results' =
                 [mfr_results EXCEPT !.articles =
                    SliceItems(data, ArticleSampleLimit)]
            /\ printed' = Append(printed,
                 [table |-> "ocd_article", total |-> Len(IterItems(data))])
  /\ UNCHANGED <<textVars, classVars, records, seriesVars, price_data,
                 propclass_data, all_results, errors>>

\* comprehensive main: all_results.append(result)
MainAppend ==
  /\ pc = "j_return"
  /\ all_results' = Append(all_results, mfr_results)
  /\ pc' = "j_done"
  /\ UNCHANGED <<textVars, classVars, records, seriesVars, price_data,
                 propclass_data, mfr_results, printed, errors>>

\* comprehensive main: except Exception as e: print("ERROR analyzing ...")
MainExcept ==
  /\ pc = "j_raised"
  /\ errors' = Append(errors, "ERROR analyzing")
  /\ pc' = "j_done"
  /\ UNCHANGED <<textVars, classVars, records, seriesVars, price_data,
                 propclass_data, mfr_results, printed, all_results>>

Next ==
  \/ RunEbaseDump
  \/ SeeBanner
  \/ SkipOutside
  \/ StartRecord
  \/ StoreField
  \/ IgnoreLine
  \/ FinishParse
  \/ Classify
  \/ Report
  \/ ExtractArticles
  \/ ExtractMappings
  \/ ExtractPriceData
  \/ AnalyzeSeries
  \/ Summarize
  \/ CheckPrice
  \/ CheckP2V
  \/ CheckPropClass
  \/ CheckPropValue
  \/ CheckArticle
  \/ MainAppend
  \/ MainExcept

Spec == Init /\ [][Next]_vars

(***************************************************************************)
(* The entries of a dump, stated without the accumulator: an entry starts  *)
(* at a boundary line, or at the start of the text (start 0), and holds    *)
(* the lines up to the next boundary.  active is the set of line numbers   *)
(* the parser looks at.                                                    *)
(***************************************************************************)
AllLines(lines) == 1..Len(lines)

\* parse_price_records looks at the lines after the first banner line that
\* are not banner lines themselves
AfterBanner(lines) ==
  {k \in 1..Len(lines) :
     ~IsBanner(lines[k]) /\ \E m \in 1..(k - 1) : IsBanner(lines[m])}

EntryStarts(lines, active, Bnd(_)) ==
  {0} \cup {b \in active : Bnd(lines[b])}

EntryLines(lines, active, Bnd(_), b) ==
  {j \in active : j > b /\ \A m \in active : (b < m /\ m <= j) => ~Bnd(lines[m])}

\* the lines of entry b on which the parser writes a key
StoredLines(lines, active, Bnd(_), Stores(_), b) ==
  {j \in EntryLines(lines, active, Bnd, b) : Stores(lines[j])}

\* the entries with at least one stored field line
FilledStarts(lines, active, Bnd(_), Stores(_)) ==
  {b \in EntryStarts(lines, active, Bnd) :
     StoredLines(lines, active, Bnd, Stores, b) # {}}

\* the start of the k-th entry with a stored field line
NthFilled(lines, active, Bnd(_), Stores(_), k) ==
  CHOOSE b \in FilledStarts(lines, active, Bnd, Stores) :
    Cardinality({c \in FilledStarts(lines, active, Bnd, Stores) : c <= b}) = k

\* the boundary lines followed by a stored field line before the next boundary
FilledBoundaries(lines, active, Bnd(_), Stores(_)) ==
  FilledStarts(lines, active, Bnd, Stores) \ {0}

\* the lines on which each parser writes a key
PriceStores(line) == ~IsRecordStart(line) /\ IsFieldLine(line)
ArticleStores(line) ==
  ElifLine([cur |-> EmptyDict, out |-> <<>>], line, "article_nr", "series").cur
    # EmptyDict
MappingStores(line) ==
  ElifLine([cur |-> EmptyDict, out |-> <<>>], line, "article_nr",
           "prop_class").cur # EmptyDict
FastStores(line) ==
  StarLine([cur |-> EmptyDict, out |-> <<>>], line, PriceFields).cur
    # EmptyDict

\* C1, as stated: the number of records emitted equals the number of
\* boundary lines of the input that are followed by at least one field line
\* before the next boundary or the end of input.
C1_RecordsEqualFilledBoundaries ==
  /\ pc = "parsed" =>
       Len(prices) = Cardinality(FilledBoundaries(output, AllLines(output),
                                   IsRecordStart, PriceStores))
  /\ pc = "articles" =>
       Len(records) = Cardinality(FilledBoundaries(output, AllLines(output),
                                    IsRecordLine, ArticleStores))
  /\ pc = "mappings" =>
       Len(records) = Cardinality(FilledBoundaries(output, AllLines(output),
                                    IsRecordLine, MappingStores))
  /\ pc = "fast_prices" =>
       Len(records) = Cardinality(FilledBoundaries(output, AllLines(output),
                                    IsRecordLine, FastStores))

\* C1, amended: the number of records emitted equals the number of boundary
\* lines followed by at least one stored field line before the next boundary
\* or the end of input, plus one when a stored field line precedes the first
\* boundary; parse_price_records counts only the lines after the first
\* '=== Records from ocd_price' line.
C1_RecordsEqualFilledEntries ==
  /\ pc = "parsed" =>
       Len(prices) = Cardinality(FilledStarts(output, AfterBanner(output),
                                   IsRecordStart, PriceStores))
  /\ pc = "articles" =>
       Len(records) = Cardinality(FilledStarts(output, AllLines(output),
                                    IsRecordLine, ArticleStores))
  /\ pc = "mappings" =>
       Len(records) = Cardinality(FilledStarts(output, AllLines(output),
                                    IsRecordLine, MappingStores))
  /\ pc = "fast_prices" =>
       Len(records) = Cardinality(FilledStarts(output, AllLines(output),
                                    IsRecordLine, FastStores))

\* extract_articles has met a boundary with an empty body and then a boundary
\* with a field line, and has emitted one record
C1_Witness ==
  /\ pc = "articles"
  /\ Len(output) = 3
  /\ IsRecordLine(output[1]) /\ IsRecordLine(output[2])
  /\ ArticleStores(output[3])
  /\ Len(records) = 1

(***************************************************************************)
(* The price classifier of analyze_framery_pricing.                        *)
(***************************************************************************)
Range(list) == {list[k] : k \in 1..Len(list)}

Classified == pc \in {"classified", "reported"}

\* the number of the three lists that hold record p
BucketsHolding(p) ==
  (IF p \in Range(base_prices) THEN 1 ELSE 0)
    + (IF p \in Range(surcharges) THEN 1 ELSE 0)
    + (IF p \in Range(corrupt) THEN 1 ELSE 0)

\* C2: every parsed price record is in exactly one of Base (price_level ==
\* 'B'), Surcharge (price_level == 'X') and Other (anything else, a missing
\* price_level included), and the three counts add up to the number of
\* records.
C2_PricePartition ==
  Classified =>
    /\ Len(base_prices) + Len(surcharges) + Len(corrupt) = Len(prices)
    /\ \A k \in 1..Len(prices) :
         /\ BucketsHolding(prices[k]) = 1
         /\ prices[k] \in Range(base_prices)
              <=> ("price_level" \in DOMAIN prices[k]
                     /\ prices[k]["price_level"] = "B")
         /\ prices[k] \in Range(surcharges)
              <=> ("price_level" \in DOMAIN prices[k]
                     /\ prices[k]["price_level"] = "X")

\* three records, one per bucket, the Other one without a price_level
C2_Witness ==
  /\ Classified
  /\ Len(prices) = 3
  /\ Len(base_prices) = 1 /\ Len(surcharges) = 1 /\ Len(corrupt) = 1
  /\ "price_level" \notin DOMAIN corrupt[1]

(***************************************************************************)
(* The ten-line scenario.                                                  *)
(***************************************************************************)
RecordX1 ==
  [k \in {"article_nr", "price_level", "price", "currency"} |->
     CASE k = "article_nr" -> "X1" [] k = "price_level" -> "B"
       [] k = "price" -> "100" [] k = "currency" -> "EUR"]

RecordX2 ==
  [k \in {"article_nr", "price_level", "price", "currency"} |->
     CASE k = "article_nr" -> "X2" [] k = "price_level" -> "X"
       [] k = "price" -> "10" [] k = "currency" -> "EUR"]

ScenarioBuckets ==
  /\ base_prices = <<RecordX1>>
  /\ surcharges = <<RecordX2>>
  /\ corrupt = <<>>

\* C3, as stated: parsing exactly the ten-line text and classifying the
\* result gives Base = [X1 record], Surcharge = [X2 record], Other = [].
C3_ScenarioAsStated ==
  (Classified /\ output = ScenarioText) => ScenarioBuckets

\* C3, amended: the ten-line text after a line holding '=== Records from
\* ocd_price' gives Base = [X1 record], Surcharge = [X2 record], Other = [];
\* the ten-line text alone gives no record, so the three buckets are empty.
C3_ScenarioAfterBanner ==
  /\ (Classified /\ output = BannerScenarioText) => ScenarioBuckets
  /\ (Classified /\ output = ScenarioText) =>
       prices = <<>> /\ base_prices = <<>> /\ surcharges = <<>>
         /\ corrupt = <<>>

C3_Witness ==
  /\ Classified
  /\ output = BannerScenarioText
  /\ Len(base_prices) = 1 /\ Len(surcharges) = 1

(***************************************************************************)
(* The sharing verdict of analyze_framery.main.                            *)
(***************************************************************************)
ClassSets == [k \in 1..Len(all_series_data) |-> all_series_data[k].property_classes]

\* C4: for two or more series the verdict is 'shared' if and only if the
\* property-class sets of all series are equal as sets of strings, and
\* 'series-specific' otherwise.
C4_SharedIffSetsEqual ==
  (pc = "summary" /\ Len(all_series_data) >= 2) =>
    /\ verdict \in {"shared", "series-specific"}
    /\ verdict = "shared"
         <=> \A a, b \in 1..Len(ClassSets) :
               /\ \A c \in ClassSets[a] : c \in ClassSets[b]
               /\ \A c \in ClassSets[b] : c \in ClassSets[a]
    /\ (ClassSets = <<{"MG_GLOBAL", "MG_PROPERTIES"},
                      {"MG_GLOBAL", "MG_PROPERTIES"}>>) => verdict = "shared"
    /\ (ClassSets = <<{"KR_A", "KR_B"}, {"WKM_A", "WKM_B"}>>)
         => verdict = "series-specific"

C4_Witness ==
  /\ pc = "summary"
  /\ ClassSets = <<{"KR_A", "KR_B"}, {"WKM_A", "WKM_B"}>>
  /\ verdict = "series-specific"

\* the series of data in the order perm
Reordered(data, perm) == [k \in 1..Len(data) |-> data[perm[k]]]

Orders(n) == {f \in [1..n -> 1..n] : \A a, b \in 1..n : a # b => f[a] # f[b]}

\* C5: the verdict is the same for every order of the series, and two
\* series with the same nonempty set are 'shared'.
C5_SymmetricReflexive ==
  pc = "summary" =>
    /\ \A perm \in Orders(Len(all_series_data)) :
         Verdict(Reordered(all_series_data, perm)) = verdict
    /\ (Len(all_series_data) = 2 /\ ClassSets[1] = ClassSets[2]
          /\ ClassSets[1] # {}) => verdict = "shared"

\* two series, one set a proper subset of the other, in both orders
C5_Witness ==
  /\ pc = "summary"
  /\ Len(all_series_data) = 2
  /\ ClassSets[1] # ClassSets[2]
  /\ ClassSets[1] \subseteq ClassSets[2]
  /\ verdict = "series-specific"

(***************************************************************************)
(* The JSON entry path of comprehensive_pricing_investigation.             *)
(***************************************************************************)
\* a decoded dump that is not an array, or an array with an element that is
\* not an object (None is a failed command, not a dump)
Malformed(x) ==
  \/ x.t \notin {"arr", "null"}
  \/ x.t = "arr" /\ \E k \in 1..Len(x.items) : x.items[k].t # "obj"

\* the counts printed for table
PrintedFor(table) == {k \in 1..Len(printed) : printed[k].table = table}

\* the dump of table fails with one error and leaves no counts and no
\* result entry
FailsWhole(table) ==
  /\ Len(errors) = 1
  /\ all_results = <<>>
  /\ PrintedFor(table) = {}

\* C6: a decoded top-level value that is not an array, or an array with an
\* element that is not an object, makes the dump fail with one error, and
\* no counts and no result entry are produced for that dump.
C6_MalformedInputFails ==
  pc = "j_done" =>
    /\ Malformed(price_data) => FailsWhole("ocd_price")
    /\ Malformed(propclass_data) => FailsWhole("ocd_propertyclass")

\* a row whose values are all text
TextOnly(row) ==
  row.t = "obj" /\ \A k \in DOMAIN row.dict : row.dict[k].t = "str"

\* C7: for the same logical row the JSON path and the text path give records
\* with the same fields and the same text values, and the price classifier
\* puts the row in the same bucket on both paths.
C7_SameBucketOnBothPaths ==
  (pc = "j_p2v" /\ price_data.t = "arr") =>
    \A k \in 1..Len(price_data.items) :
      TextOnly(price_data.items[k]) =>
        LET row == price_data.items[k]
            parsed == parse_price_records(RowText(row))
        IN /\ Len(parsed) = 1
           /\ DOMAIN parsed[1] = DOMAIN row.dict
           /\ \A f \in DOMAIN row.dict : parsed[1][f] = row.dict[f].str
           /\ PriceBucket(parsed[1]) = LevelBucket(row)

(***************************************************************************)
(* Field presence in the records of analyze_framery's extractors.          *)
(***************************************************************************)
\* the line is a field line name: '...' for field, the value may be empty
FieldAppears(line, field) == QuotedFound(line, field, 0)

ArticleAppears(line) ==
  ~IsRecordLine(line)
    /\ \E f \in {"article_nr", "series"} : FieldAppears(line, f)

MappingAppears(line) ==
  ~IsRecordLine(line)
    /\ \E f \in {"article_nr", "prop_class"} : FieldAppears(line, f)

\* the fields of fields that appear in entry b of the text
FieldsOfEntry(lines, fields, b) ==
  {f \in fields :
     \E j \in EntryLines(lines, AllLines(lines), IsRecordLine, b) :
       FieldAppears(lines[j], f)}

\* records holds one record per entry in which a field appears, with
\* exactly the fields that appear in that entry as its keys
KeysAsInInput(fields, Appears(_)) ==
  /\ Len(records) =
       Cardinality(FilledStarts(output, AllLines(output), IsRecordLine, Appears))
  /\ \A k \in 1..Len(records) :
       DOMAIN records[k] =
         FieldsOfEntry(output, fields,
           NthFilled(output, AllLines(output), IsRecordLine, Appears, k))

\* C8: a field name is a key of an output record if and only if the field
\* appeared for that entry in the input; a field present with an empty
\* value is kept as a key.
C8_KeysIffFieldAppeared ==
  /\ pc = "articles" => KeysAsInInput({"article_nr", "series"}, ArticleAppears)
  /\ pc = "mappings" =>
       KeysAsInInput({"article_nr", "prop_class"}, MappingAppears)

(***************************************************************************)
(* The 'no base prices' finding of analyze_framery_pricing.main.           *)
(***************************************************************************)
\* C9: a stream without a record of price_level 'B' is classified with an
\* empty Base list and base count 0, a record of price_level 'Q' is Other,
\* and the 'no base prices' warning is printed if and only if the base
\* count is 0.
C9_NoBaseWarning ==
  pc = "reported" =>
    /\ Len(findings) = Len(results)
    /\ \A k \in 1..Len(results) :
         /\ findings[k] = "WARNING" <=> results[k].base = 0
         /\ results[k].base = Len(results[k].base_prices)
    /\ (\A k \in 1..Len(prices) :
          ~("price_level" \in DOMAIN prices[k] /\ prices[k]["price_level"] = "B"))
         => (base_prices = <<>> /\ findings = <<"WARNING">>)
    /\ \A k \in 1..Len(prices) :
         ("price_level" \in DOMAIN prices[k] /\ prices[k]["price_level"] = "Q")
           => prices[k] \in Range(corrupt)

\* the stream of one record with price_level 'Q'
C9_Witness ==
  /\ pc = "reported"
  /\ Len(prices) = 1
  /\ "price_level" \in DOMAIN prices[1] /\ prices[1]["price_level"] = "Q"
  /\ corrupt = prices
  /\ base_prices = <<>>
  /\ findings = <<"WARNING">>

(***************************************************************************)
(* Repeated field names within one record.                                 *)
(***************************************************************************)
\* the last line of entry b of the price dump that writes key
LastLineOf(lines, b, key) ==
  LET js == {j \in StoredLines(lines, AfterBanner(lines), IsRecordStart,
                               PriceStores, b) : FieldKey(lines[j]) = key}
  IN CHOOSE j \in js : \A m \in js : m <= j

\* the last line of entry b of the dump that holds field name: '...'
LastFastLineOf(lines, b, field) ==
  LET js == {j \in EntryLines(lines, AllLines(lines), IsRecordLine, b) :
               FieldAppears(lines[j], field)}
  IN CHOOSE j \in js : \A m \in js : m <= j

\* C10: when a field name occurs on several field lines of one record, the
\* emitted record holds the value of the last such line, has one entry for
\* the name, and the other fields of the record are as their own lines say.
C10_LastWriteWins ==
  /\ pc = "parsed" =>
       /\ Len(prices) = Cardinality(FilledStarts(output, AfterBanner(output),
                                      IsRecordStart, PriceStores))
       /\ \A k \in 1..Len(prices) :
            LET b == NthFilled(output, AfterBanner(output), IsRecordStart,
                               PriceStores, k)
                stored == StoredLines(output, AfterBanner(output),
                                      IsRecordStart, PriceStores, b)
            IN /\ DOMAIN prices[k] = {FieldKey(output[j]) : j \in stored}
               /\ \A key \in DOMAIN prices[k] :
                    prices[k][key] = FieldValue(output[LastLineOf(output, b, key)])
  /\ pc = "fast_prices" =>
       /\ Len(records) = Cardinality(FilledStarts(output, AllLines(output),
                                       IsRecordLine, FastStores))
       /\ \A k \in 1..Len(records) :
            LET b == NthFilled(output, AllLines(output), IsRecordLine,
                               FastStores, k)
            IN \A f \in DOMAIN records[k] :
                 records[k][f] =
                   QuotedGroup(output[LastFastLineOf(output, b, f)], f, 0)

\* price_level is written twice, with different values, in one record that
\* also holds article_nr
C10_Witness ==
  /\ pc = "parsed"
  /\ output = <<BannerLine, "Record 1", "article_nr: 'X1'",
                "price_level: 'B'", "price_level: 'X'">>
  /\ Len(prices) = 1
  /\ DOMAIN prices[1] = {"article_nr", "price_level"}
  /\ prices[1]["price_level"] = "X"
  /\ prices[1]["article_nr"] = "X1"

(***************************************************************************)
(* The value taken from a field line.                                      *)
(***************************************************************************)
\* the remainder of the line after the first colon, trimmed
Remainder(line) == Strip(AfterColon(line))

\* the value of the line is delimited by single quotes
IsQuoted(line) ==
  /\ Len(Remainder(line)) >= 2
  /\ SubSeq(Remainder(line), 1, 1) = "'"
  /\ SubSeq(Remainder(line), Len(Remainder(line)), Len(Remainder(line))) = "'"

\* the position of the last single quote of the line
LastQuote(line) ==
  CHOOSE k \in Occurrences(line, "'") : \A m \in Occurrences(line, "'") : m <= k

\* the text strictly between the first and the last single quote of the
\* line, or the trimmed remainder when the value is not quoted
StatedValue(line) ==
  IF IsQuoted(line)
  THEN SubSeq(line, Find(line, "'") + 1, LastQuote(line) - 1)
  ELSE Remainder(line)

\* C11: the value extracted from a field line whose value is delimited by
\* single quotes is the text strictly between the first and the last single
\* quote of the line, quotes of the value itself included; for an unquoted
\* value it is the trimmed remainder of the line after the first colon.
C11_ValueBetweenQuotes ==
  /\ (pc = "parse" /\ i > 1 /\ (i - 1) \in AfterBanner(output)
        /\ PriceStores(output[i - 1])) =>
       /\ FieldKey(output[i - 1]) \in DOMAIN current_record
       /\ current_record[FieldKey(output[i - 1])] = StatedValue(output[i - 1])
  /\ pc = "fast_prices" =>
       \A k \in 1..Len(records) :
         LET b == NthFilled(output, AllLines(output), IsRecordLine,
                            FastStores, k)
         IN \A f \in DOMAIN records[k] :
              records[k][f] = StatedValue(output[LastFastLineOf(output, b, f)])

(***************************************************************************)
(* Header, banner and other ignorable lines in parse_price_records.        *)
(***************************************************************************)
\* a table-name header, a '=== Records from ocd_price' banner, a blank line
\* or a separator line
IsHeaderLine(line) ==
  \/ StartsWith(line, "Table:")
  \/ IsBanner(line)
  \/ Strip(line) = ""
  \/ StripChars(line, "-=") = ""

\* C12: processing a header or banner line that holds a colon (a line starting
\* with 'Table:', the '=== Records from ocd_price' banner) or another
\* ignorable line (blank line, separator) leaves the current-record
\* accumulator and the list of emitted records unchanged, wherever the line
\* stands in the input.
C12_HeaderLinesChangeNothing ==
  [][(pc = "parse" /\ i <= Len(output) /\ IsHeaderLine(output[i])) =>
       (i' = i + 1 /\ current_record' = current_record /\ prices' = prices)]_vars

\* a 'Table:' header has been processed inside a record whose accumulator
\* already holds a field, and the accumulator holds that field only
C12_Witness ==
  /\ pc = "parse"
  /\ i = 6
  /\ output[5] = "Table: ocd_price"
  /\ in_records
  /\ prices = <<>>
  /\ DOMAIN current_record = {"article_nr"}
  /\ current_record["article_nr"] = "X1"

(***************************************************************************)
(* Property-class mappings: the wildcard and article-specific counts.      *)
(***************************************************************************)
\* the rows of the decoded ocd_propertyclass dump whose article_nr is '*'
StarRows ==
  {k \in 1..Len(propclass_data.items) :
     /\ "article_nr" \in DOMAIN propclass_data.items[k].dict
     /\ propclass_data.items[k].dict["article_nr"].t = "str"
     /\ propclass_data.items[k].dict["article_nr"].str = "*"}

\* C13: the mappings are kept one entry per input row, repeated rows
\* included; every mapping is counted once, as wildcard if and only if its
\* article_nr is exactly '*' and as article-specific otherwise, so that
\* wildcard + article_specific = total; a mapping without article_nr is not
\* counted as wildcard.
C13_WildcardCount ==
  /\ \A k \in PrintedFor("ocd_propertyclass") :
       /\ propclass_data.t = "arr"
       /\ printed[k].total = Len(propclass_data.items)
       /\ printed[k].wildcard = Cardinality(StarRows)
       /\ printed[k].article_specific =
            Cardinality((1..Len(propclass_data.items)) \ StarRows)
       /\ printed[k].wildcard + printed[k].article_specific = printed[k].total
       /\ \A j \in 1..Len(propclass_data.items) :
            j <= PropClassSampleLimit =>
              /\ j <= Len(mfr_results.property_classes)
              /\ mfr_results.property_classes[j] = propclass_data.items[j]
  /\ pc = "mappings" =>
       /\ Len(records) = Cardinality(FilledStarts(output, AllLines(output),
                                       IsRecordLine, MappingStores))
       /\ \A k \in 1..Len(records) :
            \A f \in DOMAIN records[k] :
              \E j \in StoredLines(output, AllLines(output), IsRecordLine,
                                   MappingStores,
                                   NthFilled(output, AllLines(output),
                                             IsRecordLine, MappingStores, k)) :
                QuotedFound(output[j], f, 1)
                  /\ QuotedGroup(output[j], f, 1) = records[k][f]

\* a list with '*' three times, a mapping without article_nr and a repeated
\* article-specific mapping has been counted
C13_Witness ==
  /\ propclass_data = LongMappings
  /\ \E k \in PrintedFor("ocd_propertyclass") :
       /\ printed[k].total = 6
       /\ printed[k].wildcard = 3
       /\ printed[k].article_specific = 3
  /\ mfr_results.property_classes[1] = mfr_results.property_classes[2]

(***************************************************************************)
(* The in_records flag of parse_price_records.                             *)
(***************************************************************************)
\* a banner line stands among the first n lines of the dump
BannerWithin(n) == \E m \in 1..n : m <= Len(output) /\ IsBanner(output[m])

\* the flag, the accumulator and the emitted list while the dump is parsed
\* and afterwards
FlagFollowsBanner ==
  pc \in {"parse", "parsed"} =>
    /\ in_records <=> BannerWithin(i - 1)
    /\ ~in_records => (current_record = EmptyDict /\ prices = <<>>)

\* a step of the loop never clears the flag, sets it on a banner line only,
\* and changes neither the accumulator nor the emitted list while it is false
FlagStep ==
  pc = "parse" =>
    /\ in_records => in_records'
    /\ (~in_records /\ in_records') => (i <= Len(output) /\ IsBanner(output[i]))
    /\ ~in_records => (current_record' = current_record /\ prices' = prices)

\* C14: in parse_price_records in_records starts false, becomes true at the
\* first line containing '=== Records from ocd_price' and never becomes false
\* again; while it is false no line changes the accumulator or the emitted
\* list, and an input without such a line yields no record.
C14_InRecordsLatch == []FlagFollowsBanner /\ [][FlagStep]_vars

\* a dump without a banner, with a boundary line and a field line, has been
\* parsed to the end and has given no record
C14_Witness ==
  /\ pc = "parsed"
  /\ ~BannerWithin(Len(output))
  /\ \E a, b \in 1..Len(output) :
       a < b /\ IsRecordStart(output[a]) /\ PriceStores(output[b])
  /\ ~in_records
  /\ prices = <<>>

====
